---- MODULE Spec2Model ----
(***************************************************************************)
(* Model of dbrx::PropVal (src/src/Props.h): a tagged union over           *)
(* {NONE, BOOL, INTEGER, REAL, NAME, STRING, ARRAY, INDEXED, STRUC} with   *)
(* the containers PropVal::Array and PropVal::Map<Key, Compare>.           *)
(*                                                                         *)
(* Representation                                                          *)
(*   int64_t / int32_t  two's complement bit tuples, least significant bit *)
(*                      first, of width W64 / W32                          *)
(*   double             [k |-> "nan"], [k |-> "inf", neg], or              *)
(*                      [k |-> "fin", neg, ip, half]: the value            *)
(*                      (-1)^neg * (ip + half/2), ip a WD-bit magnitude    *)
(*   PropVal            [m_type, m_content], m_content = [live, v]: the    *)
(*                      union's active member and its value                *)
(*   Array / Map        [m_elements |-> address] / [m_entries |-> address],*)
(*                      the unique_ptr; NULL when it owns nothing          *)
(*   String             the text, or Displaced (see swapMem)               *)
(*   heap               address -> Elements (a sequence of PropVal) or     *)
(*                      Entries (a sequence of [first, second] by key)     *)
(*   sso                the build's std::string keeps a short text inside  *)
(*                      the string object (see swapMem)                    *)
(***************************************************************************)
EXTENDS Integers, Sequences, FiniteSets, TLC

VARIABLES val, arr, map, heap, last, sso

vars == <<val, arr, map, heap, last, sso>>

(***************************************************************************)
(* Fixed-width integers                                                    *)
(***************************************************************************)
W64 == 64
W32 == 32
\* width of the magnitude of a finite double's integer part (holds 2^64)
WD == W64 + 1

RECURSIVE NatBits(_, _)
NatBits(n, w) == IF w = 0 THEN <<>> ELSE <<n % 2>> \o NatBits(n \div 2, w - 1)

Zeros(w) == [i \in 1..w |-> 0]
Ones(w) == [i \in 1..w |-> 1]
Not(b) == [i \in 1..Len(b) |-> 1 - b[i]]

\* b + 1 modulo 2^Len(b)
RECURSIVE Inc(_)
Inc(b) ==
    IF b = <<>> THEN <<>>
    ELSE IF b[1] = 0 THEN <<1>> \o Tail(b)
    ELSE <<0>> \o Inc(Tail(b))

Neg(b) == Inc(Not(b))
IsNeg(b) == b[Len(b)] = 1
IsZero(b) == \A i \in 1..Len(b) : b[i] = 0

\* 2^e as a w-bit tuple
Pow2(e, w) == [i \in 1..w |-> IF i = e + 1 THEN 1 ELSE 0]

\* a small integer as an int64_t
I64(k) == IF k >= 0 THEN NatBits(k, W64) ELSE Neg(NatBits(-k, W64))
\* a small integer as an int32_t
I32(k) == IF k >= 0 THEN NatBits(k, W32) ELSE Neg(NatBits(-k, W32))

INT64_MIN == Pow2(W64 - 1, W64)
INT64_MAX == Not(INT64_MIN)
INT32_MIN64 == [i \in 1..W64 |-> IF i >= W32 THEN 1 ELSE 0]
INT32_MAX64 == [i \in 1..W64 |-> IF i < W32 THEN 1 ELSE 0]

\* signed a < b on equal-width tuples
RECURSIVE ULess(_, _)
ULess(a, b) ==
    IF a = <<>> THEN FALSE
    ELSE LET n == Len(a) IN
         IF a[n] # b[n] THEN a[n] < b[n]
         ELSE ULess(SubSeq(a, 1, n - 1), SubSeq(b, 1, n - 1))

SLess(a, b) ==
    IF IsNeg(a) # IsNeg(b) THEN IsNeg(a) ELSE ULess(a, b)

SLeq(a, b) == a = b \/ SLess(a, b)

\* static_cast<int32_t>(int64_t): the low 32 bits
Trunc32(b) == SubSeq(b, 1, W32)
\* int32_t -> int64_t (integral promotion in r == value, and Integer(value))
SignExt(r) == r \o [i \in 1..(W64 - W32) |-> r[W32]]

(***************************************************************************)
(* double                                                                  *)
(***************************************************************************)
\* significand precision of an IEEE-754 binary64
DBL_MANT_DIG == 53

NaN == [k |-> "nan"]
Inf(neg) == [k |-> "inf", neg |-> neg]
DSmall(neg, n, half) == [k |-> "fin", neg |-> neg, ip |-> NatBits(n, WD), half |-> half]
DPow(neg, e) == [k |-> "fin", neg |-> neg, ip |-> Pow2(e, WD), half |-> 0]
\* 2^63 - 1024, the largest double below 2^63
DBelow63 == [k |-> "fin", neg |-> FALSE,
             ip |-> [i \in 1..WD |-> IF i \in 11..63 THEN 1 ELSE 0], half |-> 0]

DIsZero(d) == d.k = "fin" /\ IsZero(d.ip) /\ d.half = 0

\* a == b on doubles
DEq(a, b) ==
    IF a.k = "nan" \/ b.k = "nan" THEN FALSE
    ELSE IF a.k = "inf" \/ b.k = "inf" THEN a = b
    ELSE a.ip = b.ip /\ a.half = b.half /\ (a.neg = b.neg \/ DIsZero(a))

\* index of the most significant set bit (0 when there is none)
RECURSIVE TopBit(_)
TopBit(m) ==
    IF m = <<>> THEN 0
    ELSE IF m[Len(m)] = 1 THEN Len(m)
    ELSE TopBit(SubSeq(m, 1, Len(m) - 1))

\* round a magnitude to DBL_MANT_DIG significant bits, ties to even
Round53(m) ==
    LET t == TopBit(m) IN
    IF t <= DBL_MANT_DIG THEN m
    ELSE LET d == t - DBL_MANT_DIG
             sticky == \E i \in 1..(d - 1) : m[i] = 1
             up == m[d] = 1 /\ (sticky \/ m[d + 1] = 1)
             hi == SubSeq(m, d + 1, Len(m))
         IN Zeros(d) \o (IF up THEN Inc(hi) ELSE hi)

\* int64_t -> double (the usual arithmetic conversion in intVal == value)
Int64ToDouble(i) ==
    LET mag == IF IsNeg(i) THEN Neg(i) ELSE i
    IN [k |-> "fin", neg |-> IsNeg(i), ip |-> Round53(mag \o <<0>>), half |-> 0]

\* the truncated value of d is representable in int64_t
InInt64Range(d) ==
    /\ d.k = "fin"
    /\ \/ d.ip[W64] = 0 /\ d.ip[WD] = 0
       \/ d.neg /\ d.ip = Pow2(W64 - 1, WD)

\* static_cast<int64_t>(double): truncation toward zero when the truncated
\* value is representable; otherwise the conversion is undefined and the
\* result is what the target's conversion instruction leaves: the "integer
\* indefinite" value INT64_MIN (x86-64 cvttsd2si), or the saturated value with
\* NaN giving 0 (AArch64 fcvtzs).
DoubleToInt64(d) ==
    IF InInt64Range(d)
    THEN LET low == SubSeq(d.ip, 1, W64) IN {IF d.neg THEN Neg(low) ELSE low}
    ELSE {INT64_MIN,
          IF d.k = "nan" THEN I64(0) ELSE IF d.neg THEN INT64_MIN ELSE INT64_MAX}

(***************************************************************************)
(* PropVal: scalars                                                        *)
(***************************************************************************)
Types == {"NONE", "BOOL", "INTEGER", "REAL", "NAME", "STRING",
          "ARRAY", "INDEXED", "STRUC"}

\* the union member each Type selects (Content(Type), Content(Type, other))
MemberOf(type) ==
    CASE type = "NONE" -> "e" [] type = "BOOL" -> "b" [] type = "INTEGER" -> "i"
      [] type = "REAL" -> "r" [] type = "NAME" -> "n" [] type = "STRING" -> "s"
      [] type = "ARRAY" -> "a" [] type = "INDEXED" -> "m" [] type = "STRUC" -> "o"

Content(member, value) == [live |-> member, v |-> value]

\* PropVal() {}: m_type = Type::NONE, Content() : e()
PropVal_default == [m_type |-> "NONE", m_content |-> Content("e", "nullptr")]

\* PropVal(Bool value)
PropVal_Bool(value) == [m_type |-> "BOOL", m_content |-> Content("b", value)]

\* PropVal(Integer value)
PropVal_Integer(value) == [m_type |-> "INTEGER", m_content |-> Content("i", value)]

\* PropVal(int32_t value) : m_content(Integer(value))
PropVal_int32(value) == [m_type |-> "INTEGER", m_content |-> Content("i", SignExt(value))]

\* PropVal(double value): the set of results, one per result of the cast
PropVal_double(value) ==
    { IF DEq(Int64ToDouble(intVal), value)
      THEN [m_type |-> "INTEGER", m_content |-> Content("i", intVal)]
      ELSE [m_type |-> "REAL", m_content |-> Content("r", value)]
      : intVal \in DoubleToInt64(value) }

\* PropVal(Name value); a Name is modelled by its id
PropVal_Name(value) == [m_type |-> "NAME", m_content |-> Content("n", value)]

\* PropVal(const String &value), PropVal(const char* value)
PropVal_String(value) == [m_type |-> "STRING", m_content |-> Content("s", value)]

\* castToInt32 without the comparison of r with value
castToInt32_unchecked(value) == [ok |-> TRUE, r |-> Trunc32(value)]

\* static int32_t castToInt32(Integer value): the value narrowed to 32 bits,
\* std::bad_cast when the narrowed value differs from it
castToInt32(value) ==
    LET r == Trunc32(value) IN
    IF SignExt(r) = value THEN [ok |-> TRUE, r |-> r] ELSE [ok |-> FALSE, r |-> "bad_cast"]

\* static bool castToBool(Integer value)
castToBool(value) ==
    CASE value = I64(0) -> [ok |-> TRUE, r |-> FALSE]
      [] value = I64(1) -> [ok |-> TRUE, r |-> TRUE]
      [] OTHER -> [ok |-> FALSE, r |-> "bad_cast"]

BadCast == [ok |-> FALSE, r |-> "bad_cast"]

asBool(x) ==
    CASE x.m_type = "BOOL" -> [ok |-> TRUE, r |-> x.m_content.v]
      [] x.m_type = "INTEGER" -> castToBool(x.m_content.v)
      [] OTHER -> BadCast

asInt(x) ==
    CASE x.m_type = "INTEGER" -> castToInt32(x.m_content.v)
      [] x.m_type = "BOOL" -> [ok |-> TRUE, r |-> IF x.m_content.v THEN I32(1) ELSE I32(0)]
      [] OTHER -> BadCast

asLong64(x) ==
    CASE x.m_type = "INTEGER" -> [ok |-> TRUE, r |-> x.m_content.v]
      [] x.m_type = "BOOL" -> [ok |-> TRUE, r |-> IF x.m_content.v THEN I64(1) ELSE I64(0)]
      [] OTHER -> BadCast

(***************************************************************************)
(* Heap, containers                                                        *)
(***************************************************************************)
\* the null unique_ptr
NULL == 0

\* the lowest address not in use
NewAddr(h) ==
    CHOOSE a \in 1..(Cardinality(DOMAIN h) + 1) :
        a \notin DOMAIN h /\ \A b \in 1..(a - 1) : b \in DOMAIN h

\* std::vector<PropVal>: the elements in order
Elements(es) == [k |-> "Elements", e |-> es]
\* std::map<const Key, PropVal, Compare>: the entries [first, second] in
\* comparator order, keys unique
Entries(es) == [k |-> "Entries", e |-> es]

Entry(key, value) == [first |-> key, second |-> value]

IsContainer(v) == v.m_content.live \in {"a", "m", "o"}
\* the unique_ptr inside the live container member
Store(v) == IF v.m_content.live = "a" THEN v.m_content.v.m_elements
            ELSE v.m_content.v.m_entries

\* the PropVal objects held by a cell, in order
Held(cell) ==
    IF cell.k = "Elements" THEN cell.e
    ELSE [i \in 1..Len(cell.e) |-> cell.e[i].second]

\* addresses of the containers owned, directly or transitively, by v
RECURSIVE Reach(_, _)
Reach(h, v) ==
    IF ~IsContainer(v) \/ Store(v) = NULL THEN {}
    ELSE IF Store(v) \notin DOMAIN h THEN {Store(v)}
    ELSE LET hd == Held(h[Store(v)])
         IN {Store(v)} \cup UNION {Reach(h, hd[i]) : i \in 1..Len(hd)}

ReachAll(h, vs) == UNION {Reach(h, vs[i]) : i \in 1..Len(vs)}

Release(h, addrs) == [a \in DOMAIN h \ addrs |-> h[a]]

\* ~PropVal(): if (m_type > Type::NAME) destructorImpl(), which destroys the
\* live member; a container's unique_ptr deletes its store and the store
\* destroys the PropVals it holds
destructorImpl(h, v) == Release(h, Reach(h, v))

PropVal_destroy(h, v) ==
    IF v.m_type \in {"STRING", "ARRAY", "INDEXED", "STRUC"}
    THEN destructorImpl(h, v) ELSE h

RECURSIVE DestroyAll(_, _)
DestroyAll(h, vs) ==
    IF vs = <<>> THEN h ELSE DestroyAll(PropVal_destroy(h, Head(vs)), Tail(vs))

\* Array() : m_elements{new Elements}
Array_default(h) ==
    LET a == NewAddr(h) IN [h |-> h @@ (a :> Elements(<<>>)), o |-> [m_elements |-> a]]

\* Map() : m_entries{new Entries}
Map_default(h) ==
    LET a == NewAddr(h) IN [h |-> h @@ (a :> Entries(<<>>)), o |-> [m_entries |-> a]]

RECURSIVE PropVal_copy(_, _)
RECURSIVE CopyElements(_, _)
RECURSIVE CopyEntries(_, _)

\* std::vector copy assignment into an empty vector: copy-constructs each element
CopyElements(h, es) ==
    IF es = <<>> THEN [h |-> h, s |-> <<>>]
    ELSE LET r1 == PropVal_copy(h, Head(es))
             r2 == CopyElements(r1.h, Tail(es))
         IN [h |-> r2.h, s |-> <<r1.v>> \o r2.s]

\* std::map copy assignment into an empty map: copy-constructs each entry
CopyEntries(h, es) ==
    IF es = <<>> THEN [h |-> h, s |-> <<>>]
    ELSE LET r1 == PropVal_copy(h, Head(es).second)
             r2 == CopyEntries(r1.h, Tail(es))
         IN [h |-> r2.h, s |-> <<Entry(Head(es).first, r1.v)>> \o r2.s]

\* Array(const Array &other) : Array() { *this = other; }
Array_copy(h, other) ==
    LET d == Array_default(h)
        r == CopyElements(d.h, h[other.m_elements].e)
    IN [h |-> [r.h EXCEPT ![d.o.m_elements] = Elements(r.s)], o |-> d.o]

\* Map(const Map &other) : Map() { *this = other; }
Map_copy(h, other) ==
    LET d == Map_default(h)
        r == CopyEntries(d.h, h[other.m_entries].e)
    IN [h |-> [r.h EXCEPT ![d.o.m_entries] = Entries(r.s)], o |-> d.o]

\* Array(Array &&other) : m_elements(std::move(other.m_elements))
Array_move(other) ==
    [this |-> [m_elements |-> other.m_elements], other |-> [m_elements |-> NULL]]

\* Map(Map &&other) : m_entries(std::move(other.m_entries))
Map_move(other) ==
    [this |-> [m_entries |-> other.m_entries], other |-> [m_entries |-> NULL]]

\* Content(Type type): value-initialises the member the type selects
Content_Type(h, type) ==
    CASE type = "NONE" -> [h |-> h, c |-> Content("e", "nullptr")]
      [] type = "BOOL" -> [h |-> h, c |-> Content("b", FALSE)]
      [] type = "INTEGER" -> [h |-> h, c |-> Content("i", I64(0))]
      [] type = "REAL" -> [h |-> h, c |-> Content("r", DSmall(FALSE, 0, 0))]
      [] type = "NAME" -> [h |-> h, c |-> Content("n", 0)]
      [] type = "STRING" -> [h |-> h, c |-> Content("s", "")]
      [] type = "ARRAY" -> LET d == Array_default(h) IN [h |-> d.h, c |-> Content("a", d.o)]
      [] type = "INDEXED" -> LET d == Map_default(h) IN [h |-> d.h, c |-> Content("m", d.o)]
      [] type = "STRUC" -> LET d == Map_default(h) IN [h |-> d.h, c |-> Content("o", d.o)]

\* Content(Type type, const Content &other): copy-constructs the member the
\* type selects from the same member of other
Content_copy(h, type, other) ==
    CASE type = "ARRAY" ->
           LET r == Array_copy(h, other.v) IN [h |-> r.h, c |-> Content("a", r.o)]
      [] type = "INDEXED" ->
           LET r == Map_copy(h, other.v) IN [h |-> r.h, c |-> Content("m", r.o)]
      [] type = "STRUC" ->
           LET r == Map_copy(h, other.v) IN [h |-> r.h, c |-> Content("o", r.o)]
      [] OTHER -> [h |-> h, c |-> Content(MemberOf(type), other.v)]

\* PropVal(Type type) : m_type(type), m_content(type)
PropVal_Type(h, type) ==
    LET r == Content_Type(h, type) IN [h |-> r.h, v |-> [m_type |-> type, m_content |-> r.c]]

\* PropVal(const PropVal &other) : m_type(other.m_type), m_content(other.m_type, other.m_content)
PropVal_copy(h, other) ==
    LET r == Content_copy(h, other.m_type, other.m_content)
    IN [h |-> r.h, v |-> [m_type |-> other.m_type, m_content |-> r.c]]

\* A std::string that keeps its text in a buffer inside the string object
\* holds a pointer to that buffer.  Its bytes copied to another place still
\* point into the place they left: what the string there reads is not its
\* text, and the pointer it would free is not one it allocated.  Every
\* String of the model is short enough to be kept inside the object.
Displaced == "<displaced>"

\* the payload whose bytes have been copied to another place
MovedBytes(c) == IF sso /\ c.live = "s" THEN Content("s", Displaced) ELSE c

\* swapMem: exchanges the bytes of the two unions.  A scalar, a Name and the
\* unique_ptr of a container mean the same wherever their bytes lie.
swapMem(a, b) == [a |-> MovedBytes(b), b |-> MovedBytes(a)]

\* swap with std::swap(a.m_type, b.m_type) left out
swap_TagsStay(a, b) ==
    LET m == swapMem(a.m_content, b.m_content)
    IN [a |-> [m_type |-> a.m_type, m_content |-> m.a],
        b |-> [m_type |-> b.m_type, m_content |-> m.b]]

\* friend void swap(PropVal &a, PropVal &b)
swap(a, b) ==
    LET m == swapMem(a.m_content, b.m_content)
    IN [a |-> [m_type |-> b.m_type, m_content |-> m.a],
        b |-> [m_type |-> a.m_type, m_content |-> m.b]]

\* PropVal(PropVal &&other) { swap(*this, other); }
PropVal_move(other) ==
    LET s == swap(PropVal_default, other) IN [this |-> s.a, other |-> s.b]

\* PropVal(const Array &value): Content(Array value) takes a copy and moves it in
PropVal_Array_copy(h, value) ==
    LET r == Array_copy(h, value)
    IN [h |-> r.h, v |-> [m_type |-> "ARRAY", m_content |-> Content("a", Array_move(r.o).this)]]

\* PropVal(Array &&value): the parameter of Content(Array value) is
\* move-constructed from value, then moved into the member
PropVal_Array_move(value) ==
    LET p == Array_move(value)
    IN [this |-> [m_type |-> "ARRAY", m_content |-> Content("a", Array_move(p.this).this)],
        value |-> p.other]

\* PropVal(const Indexed &value), PropVal(const Struc &value)
PropVal_Map_copy(h, type, value) ==
    LET r == Map_copy(h, value)
    IN [h |-> r.h,
        v |-> [m_type |-> type, m_content |-> Content(MemberOf(type), Map_move(r.o).this)]]

\* PropVal(Indexed &&value), PropVal(Struc &&value)
PropVal_Map_move(type, value) ==
    LET p == Map_move(value)
    IN [this |-> [m_type |-> type,
                  m_content |-> Content(MemberOf(type), Map_move(p.this).this)],
        value |-> p.other]

\* PropVal& operator=(PropVal other) { swap(*this, other); return *this; }
\* with other copy-constructed from an lvalue; other, holding the old state
\* of *this, is destroyed on return
Assign_copy(h, this, from) ==
    LET c == PropVal_copy(h, from)
        s == swap(this, c.v)
    IN [h |-> PropVal_destroy(c.h, s.b), this |-> s.a]

\* operator= with other move-constructed from an rvalue
Assign_move(h, this, from) ==
    LET m == PropVal_move(from)
        s == swap(this, m.this)
    IN [h |-> PropVal_destroy(h, s.b), this |-> s.a, from |-> m.other]

(***************************************************************************)
(* Equality.  A comparison yields the set of its possible outcomes:        *)
(* "true", "false", or "crash" where the comparison reads storage that     *)
(* holds no object.                                                        *)
(***************************************************************************)
B(b) == IF b THEN {"true"} ELSE {"false"}

\* a comparison that reads storage holding no object of the type read
Undefined == {"true", "false", "crash"}

\* what *it2 == ... can do once it2 has run past the end of other
PastTheEnd == Undefined

RECURSIVE PropVal_eq(_, _, _)
RECURSIVE MismatchElements(_, _, _, _)
RECURSIVE MismatchEntries(_, _, _, _)

\* std::mismatch(begin(), end(), other.begin()).first == end() on Elements:
\* walks [begin(), end()) of *this, comparing with other element by element,
\* without looking at other's length
MismatchElements(h, es, os, i) ==
    IF i > Len(es) THEN {"true"}
    ELSE IF i > Len(os) THEN PastTheEnd
    ELSE LET o == PropVal_eq(h, es[i], os[i])
         IN (o \ {"true"}) \cup (IF "true" \in o THEN MismatchElements(h, es, os, i + 1) ELSE {})

\* the same on Entries: std::pair's ==, first == first && second == second
MismatchEntries(h, es, os, i) ==
    IF i > Len(es) THEN {"true"}
    ELSE IF i > Len(os) THEN PastTheEnd
    ELSE LET o == IF es[i].first = os[i].first
                  THEN PropVal_eq(h, es[i].second, os[i].second) ELSE {"false"}
         IN (o \ {"true"}) \cup (IF "true" \in o THEN MismatchEntries(h, es, os, i + 1) ELSE {})

\* bool Array::operator==(const Array &other) const
Array_eq(h, this, other) ==
    MismatchElements(h, h[this.m_elements].e, h[other.m_elements].e, 1)

\* bool Map::operator==(const Map &other) const
Map_eq(h, this, other) ==
    MismatchEntries(h, h[this.m_entries].e, h[other.m_entries].e, 1)

\* bool comparisonImpl(const PropVal &other) const: declared in Props.h, defined
\* elsewhere.  Identical tag, then the payload's own equality; a displaced
\* String compares whatever bytes it points at.
comparisonImpl(h, this, other) ==
    IF this.m_type # other.m_type THEN {"false"}
    ELSE CASE this.m_type = "STRING" /\ Displaced \in {this.m_content.v, other.m_content.v} ->
                Undefined
           [] this.m_type = "ARRAY" -> Array_eq(h, this.m_content.v, other.m_content.v)
           [] this.m_type \in {"INDEXED", "STRUC"} ->
                Map_eq(h, this.m_content.v, other.m_content.v)
           [] OTHER -> B(this.m_content.v = other.m_content.v)

BoolAsInt(b) == IF b THEN I64(1) ELSE I64(0)

\* bool operator==(PropVal other) const
PropVal_eq(h, this, other) ==
    CASE this.m_type = "NONE" -> B(other.m_type = "NONE")
      [] this.m_type = "BOOL" ->
           (CASE other.m_type = "BOOL" -> B(this.m_content.v = other.m_content.v)
              [] other.m_type = "INTEGER" -> B(BoolAsInt(this.m_content.v) = other.m_content.v)
              [] OTHER -> {"false"})
      [] this.m_type = "INTEGER" ->
           (CASE other.m_type = "INTEGER" -> B(this.m_content.v = other.m_content.v)
              [] other.m_type = "BOOL" -> B(this.m_content.v = BoolAsInt(other.m_content.v))
              [] OTHER -> {"false"})
      [] this.m_type = "REAL" ->
           B(other.m_type = "REAL" /\ DEq(this.m_content.v, other.m_content.v))
      [] OTHER -> comparisonImpl(h, this, other)

(***************************************************************************)
(* Array and Map operations                                                *)
(***************************************************************************)
size(h, c) == Len(h[IF "m_elements" \in DOMAIN c THEN c.m_elements ELSE c.m_entries].e)

\* void push_back(const PropVal &val): copy-constructs the new last element
push_back(h, this, value) ==
    LET r == PropVal_copy(h, value)
    IN [r.h EXCEPT ![this.m_elements] = Elements(Append(@.e, r.v))]

\* void push_back(PropVal &&val): move-constructs the new last element
push_back_move(h, this, value) ==
    LET m == PropVal_move(value)
    IN [h |-> [h EXCEPT ![this.m_elements] = Elements(Append(@.e, m.this))],
        value |-> m.other]

\* void resize(size_t n): destroys the elements from n on, or appends PropVal()
resize(h, this, n) ==
    LET es == h[this.m_elements].e IN
    IF n <= Len(es)
    THEN [DestroyAll(h, SubSeq(es, n + 1, Len(es)))
            EXCEPT ![this.m_elements] = Elements(SubSeq(es, 1, n))]
    ELSE [h EXCEPT ![this.m_elements] =
            Elements(es \o [i \in 1..(n - Len(es)) |-> PropVal_default])]

\* void clear()
clear(h, this) ==
    [DestroyAll(h, h[this.m_elements].e) EXCEPT ![this.m_elements] = Elements(<<>>)]

\* Array(std::initializer_list<PropVal> init): m_elements(new Elements(init))
Array_init(h, init) ==
    LET d == Array_default(h)
        r == CopyElements(d.h, init)
    IN [h |-> [r.h EXCEPT ![d.o.m_elements] = Elements(r.s)], o |-> d.o]

\* Array& operator=(const Array &other): the vector's copy assignment destroys
\* the elements of *this and copy-constructs other's
Array_assign(h, this, other) ==
    IF this.m_elements = other.m_elements THEN h
    ELSE LET r == CopyElements(h, h[other.m_elements].e)
         IN [DestroyAll(r.h, h[this.m_elements].e) EXCEPT ![this.m_elements] = Elements(r.s)]

\* Array& operator=(Array &&other): the vector's move assignment destroys the
\* elements of *this and takes other's, leaving other's vector empty
Array_assign_move(h, this, other) ==
    [DestroyAll(h, h[this.m_elements].e)
       EXCEPT ![this.m_elements] = Elements(h[other.m_elements].e),
              ![other.m_elements] = Elements(<<>>)]

\* static void swap(Array &a, Array &b): std::swap(a.m_elements, b.m_elements)
Array_swap(a, b) == [a |-> [m_elements |-> b.m_elements], b |-> [m_elements |-> a.m_elements]]

\* position of key among the entries, 0 when it is not there
Find(es, key) ==
    IF \E i \in 1..Len(es) : es[i].first = key
    THEN CHOOSE i \in 1..Len(es) : es[i].first = key ELSE 0

\* bool hasMember(const Key &key) const
hasMember(h, this, key) == Find(h[this.m_entries].e, key) # 0

\* the entries with a new one put at its place in comparator order
InsertEntry(es, e) ==
    LET n == Cardinality({i \in 1..Len(es) : es[i].first < e.first})
    IN SubSeq(es, 1, n) \o <<e>> \o SubSeq(es, n + 1, Len(es))

\* PropVal& operator[](Key key): the entry of key, inserted with PropVal()
\* when there is none; at |-> its position
Map_index(h, this, key) ==
    LET es == h[this.m_entries].e IN
    IF Find(es, key) # 0 THEN [h |-> h, at |-> Find(es, key)]
    ELSE LET ns == InsertEntry(es, Entry(key, PropVal_default))
         IN [h |-> [h EXCEPT ![this.m_entries] = Entries(ns)], at |-> Find(ns, key)]

\* PropVal& at(Key key): std::map::at, which throws std::out_of_range
Map_at(h, this, key) ==
    LET i == Find(h[this.m_entries].e, key)
    IN [ok |-> i # 0, at |-> i]

\* the entry at position i assigned the PropVal nv
SetSecond(h, this, i, nv) ==
    [h EXCEPT ![this.m_entries] = Entries([@.e EXCEPT ![i] = Entry(@.first, nv)])]

\* PropVal& operator()(Key key, const PropVal &dflt)
Map_call(h, this, key, dflt) ==
    IF hasMember(h, this, key)
    THEN [h |-> h, at |-> Map_at(h, this, key).at]
    ELSE LET ix == Map_index(h, this, key)
             as == Assign_copy(ix.h, ix.h[this.m_entries].e[ix.at].second, dflt)
         IN [h |-> SetSecond(as.h, this, ix.at, as.this), at |-> ix.at]

\* PropVal& operator()(Key key, PropVal &&dflt)
Map_call_move(h, this, key, dflt) ==
    IF hasMember(h, this, key)
    THEN [h |-> h, at |-> Map_at(h, this, key).at, dflt |-> dflt]
    ELSE LET ix == Map_index(h, this, key)
             as == Assign_move(ix.h, ix.h[this.m_entries].e[ix.at].second, dflt)
         IN [h |-> SetSecond(as.h, this, ix.at, as.this), at |-> ix.at, dflt |-> as.from]

\* std::map's range constructor: inserts the entries in order, copy-constructing
\* each, and skips an entry whose key is already there
RECURSIVE InsertRange(_, _, _)
InsertRange(h, es, init) ==
    IF init = <<>> THEN [h |-> h, s |-> es]
    ELSE IF Find(es, Head(init).first) # 0 THEN InsertRange(h, es, Tail(init))
    ELSE LET r == PropVal_copy(h, Head(init).second)
         IN InsertRange(r.h, InsertEntry(es, Entry(Head(init).first, r.v)), Tail(init))

\* Map(std::initializer_list<Entry> init): m_entries(new Entries(init.begin(), init.end()))
Map_init(h, init) ==
    LET d == Map_default(h)
        r == InsertRange(d.h, <<>>, init)
    IN [h |-> [r.h EXCEPT ![d.o.m_entries] = Entries(r.s)], o |-> d.o]

\* Map& operator=(const Map &other)
Map_assign(h, this, other) ==
    IF this.m_entries = other.m_entries THEN h
    ELSE LET r == CopyEntries(h, h[other.m_entries].e)
         IN [DestroyAll(r.h, Held(h[this.m_entries])) EXCEPT ![this.m_entries] = Entries(r.s)]

\* Map& operator=(Map &&other)
Map_assign_move(h, this, other) ==
    [DestroyAll(h, Held(h[this.m_entries]))
       EXCEPT ![this.m_entries] = Entries(h[other.m_entries].e),
              ![other.m_entries] = Entries(<<>>)]

(***************************************************************************)
(* Literals: a scalar PropVal, or [lit |-> "ARRAY", items |-> a sequence   *)
(* of literals], or [lit |-> "INDEXED" / "STRUC", items |-> a sequence of  *)
(* [first |-> key, second |-> literal]]                                    *)
(***************************************************************************)
IsScalarLit(lit) == "lit" \notin DOMAIN lit

RECURSIVE Build(_, _)
RECURSIVE BuildItems(_, _)
RECURSIVE BuildPairs(_, _)

\* no temporaries yet
NoItems(h) == [h |-> h, s |-> <<>>]

\* the temporary r.v, built in the heap r.h, joins the temporaries ts
WithItem(ts, r) == [h |-> r.h, s |-> Append(ts.s, r.v)]

WithPair(ts, key, r) == [h |-> r.h, s |-> Append(ts.s, Entry(key, r.v))]

\* the temporaries of an initializer_list<PropVal>, after the temporaries ts
BuildItems(ts, items) ==
    IF items = <<>> THEN ts
    ELSE BuildItems(WithItem(ts, Build(ts.h, Head(items))), Tail(items))

\* the temporaries of an initializer_list<Entry>, after the temporaries ts
BuildPairs(ts, items) ==
    IF items = <<>> THEN ts
    ELSE BuildPairs(WithPair(ts, Head(items).first, Build(ts.h, Head(items).second)),
                    Tail(items))

\* PropVal(Array(init)): the Array a.o made from the temporaries ts is moved
\* into the PropVal, and the temporaries die
ArrayOf(ts, a) == [h |-> DestroyAll(a.h, ts.s), v |-> PropVal_Array_move(a.o).this]

\* PropVal(Indexed(init)), PropVal(Struc(init))
MapOf(type, ts, a) ==
    [h |-> DestroyAll(a.h, Held(Entries(ts.s))), v |-> PropVal_Map_move(type, a.o).this]

ArrayFrom(ts) == ArrayOf(ts, Array_init(ts.h, ts.s))

MapFrom(type, ts) == MapOf(type, ts, Map_init(ts.h, ts.s))

\* static PropVal array(init) { return PropVal(Array(init)); }, likewise
\* indexed(init) and struc(init)
Build(h, lit) ==
    IF IsScalarLit(lit) THEN [h |-> h, v |-> lit]
    ELSE IF lit.lit = "ARRAY" THEN ArrayFrom(BuildItems(NoItems(h), lit.items))
    ELSE MapFrom(lit.lit, BuildPairs(NoItems(h), lit.items))

ArrayLit(items) == [lit |-> "ARRAY", items |-> items]
MapLit(type, items) == [lit |-> type, items |-> items]

\* The value a PropVal stands for, the heap left out: a scalar's tag and
\* payload, a sequence's elements, a map's entries.
RECURSIVE Abs(_, _)
Abs(h, v) ==
    IF ~IsContainer(v) THEN [t |-> v.m_type, p |-> v.m_content]
    ELSE IF Store(v) = NULL \/ Store(v) \notin DOMAIN h THEN [t |-> v.m_type, p |-> "none"]
    ELSE LET c == h[Store(v)] IN
         IF c.k = "Elements"
         THEN [t |-> v.m_type, p |-> [i \in 1..Len(c.e) |-> Abs(h, c.e[i])]]
         ELSE [t |-> v.m_type,
               p |-> [i \in 1..Len(c.e) |-> Entry(c.e[i].first, Abs(h, c.e[i].second))]]

(***************************************************************************)
(* Program state: PropVal variables x, y; Array variables p, q; Map        *)
(* variables m, n (one instantiation of the template, keys compared by <). *)
(***************************************************************************)
ValNames == {"x", "y"}
ArrNames == {"p", "q"}
MapNames == {"m", "n"}

Init ==
    /\ val = [v \in ValNames |-> PropVal_default]
    /\ arr = [a \in ArrNames |-> [m_elements |-> IF a = "p" THEN 1 ELSE 2]]
    /\ map = [a \in MapNames |-> [m_entries |-> IF a = "m" THEN 3 ELSE 4]]
    /\ heap = <<Elements(<<>>), Elements(<<>>), Entries(<<>>), Entries(<<>>)>>
    /\ last = [op |-> "init"]
    /\ sso \in BOOLEAN

Running == last.op # "crash"

\* the other PropVal variable
Other(a) == IF a = "x" THEN "y" ELSE "x"

Cfg(nv, na, nm, nh) == [val |-> nv, arr |-> na, map |-> nm, heap |-> nh]

\* An address is only a name for a store: the state is kept with the stores
\* numbered in the order in which the variables x, y, p, q, m, n reach them.
AsValue(c) ==
    IF "m_elements" \in DOMAIN c
    THEN [m_type |-> "ARRAY", m_content |-> Content("a", c)]
    ELSE [m_type |-> "INDEXED", m_content |-> Content("m", c)]

InSeq(x, sq) == \E i \in 1..Len(sq) : sq[i] = x

RECURSIVE Visit(_, _, _)
Visit(h, vs, seen) ==
    IF vs = <<>> THEN seen
    ELSE LET v == Head(vs) IN
         IF ~IsContainer(v) \/ Store(v) = NULL \/ Store(v) \notin DOMAIN h \/ InSeq(Store(v), seen)
         THEN Visit(h, Tail(vs), seen)
         ELSE Visit(h, Held(h[Store(v)]) \o Tail(vs), Append(seen, Store(v)))

RECURSIVE Ascending(_)
Ascending(S) ==
    IF S = {} THEN <<>>
    ELSE LET a == CHOOSE a \in S : \A b \in S : a <= b IN <<a>> \o Ascending(S \ {a})

Renumber(c, order) ==
    LET a == IF "m_elements" \in DOMAIN c THEN c.m_elements ELSE c.m_entries
        na == IF InSeq(a, order) THEN CHOOSE i \in 1..Len(order) : order[i] = a ELSE a
    IN IF "m_elements" \in DOMAIN c THEN [m_elements |-> na] ELSE [m_entries |-> na]

RenumberVal(v, order) ==
    IF IsContainer(v) THEN [v EXCEPT !.m_content.v = Renumber(@, order)] ELSE v

RenumberCell(c, order) ==
    IF c.k = "Elements"
    THEN Elements([i \in 1..Len(c.e) |-> RenumberVal(c.e[i], order)])
    ELSE Entries([i \in 1..Len(c.e) |-> Entry(c.e[i].first, RenumberVal(c.e[i].second, order))])

Canon(c) ==
    LET roots == <<c.val["x"], c.val["y"], AsValue(c.arr["p"]), AsValue(c.arr["q"]),
                   AsValue(c.map["m"]), AsValue(c.map["n"])>>
        seen == Visit(c.heap, roots, <<>>)
        order == seen \o Ascending({a \in DOMAIN c.heap : ~InSeq(a, seen)})
    IN Cfg([v \in ValNames |-> RenumberVal(c.val[v], order)],
           [a \in ArrNames |-> Renumber(c.arr[a], order)],
           [a \in MapNames |-> Renumber(c.map[a], order)],
           [i \in 1..Len(order) |-> RenumberCell(c.heap[order[i]], order)])

\* the step to the configuration c
Step(c) ==
    \E n \in {Canon(c)} :
        val' = n.val /\ arr' = n.arr /\ map' = n.map /\ heap' = n.heap /\ sso' = sso

\* the variable v goes out of scope and is declared anew holding nv
Declared(v, h, nv) == Cfg([val EXCEPT ![v] = nv], arr, map, PropVal_destroy(h, val[v]))

(***************************************************************************)
(* Scalar construction, numeric accessors, comparison                      *)
(***************************************************************************)
Doubles ==
    {DSmall(FALSE, 0, 0), DSmall(TRUE, 0, 0), DSmall(FALSE, 1, 0), DSmall(FALSE, 1, 1),
     DSmall(TRUE, 1, 1), DSmall(FALSE, 0, 1), DBelow63, DPow(FALSE, 63), DPow(TRUE, 63),
     DPow(FALSE, 64), NaN, Inf(FALSE), Inf(TRUE)}

Integers64 ==
    {I64(0), I64(1), I64(2), INT32_MAX64, Inc(INT32_MAX64), INT32_MIN64,
     Not(Inc(INT32_MAX64)), Pow2(40, W64), INT64_MIN, INT64_MAX}

Integers32 == {I32(-1), Pow2(W32 - 1, W32), Not(Pow2(W32 - 1, W32))}

\* PropVal v(d) with a double d
FromDouble(v, d) ==
    /\ Running
    /\ \E nv \in PropVal_double(d) : Step(Declared(v, heap, nv))
    /\ last' = [op |-> "PropVal(double)", name |-> v, arg |-> d]

\* PropVal v(i) with an int64_t i
FromInteger(v, i) ==
    /\ Running
    /\ Step(Declared(v, heap, PropVal_Integer(i)))
    /\ last' = [op |-> "PropVal(Integer)", name |-> v, arg |-> i]

\* PropVal v(i) with an int32_t i
FromInt32(v, i) ==
    /\ Running
    /\ Step(Declared(v, heap, PropVal_int32(i)))
    /\ last' = [op |-> "PropVal(int32_t)", name |-> v, arg |-> i]

\* PropVal v(b) with a bool b
FromBool(v, b) ==
    /\ Running
    /\ Step(Declared(v, heap, PropVal_Bool(b)))
    /\ last' = [op |-> "PropVal(Bool)", name |-> v, arg |-> b]

\* PropVal v(type)
FromType(v, type) ==
    /\ Running
    /\ \E r \in {PropVal_Type(heap, type)} : Step(Declared(v, r.h, r.v))
    /\ last' = [op |-> "PropVal(Type)", name |-> v, arg |-> type]

AsBool(v) ==
    /\ Running
    /\ last' = [op |-> "asBool", name |-> v, arg |-> val[v], res |-> asBool(val[v])]
    /\ UNCHANGED <<val, arr, map, heap, sso>>

AsInt(v) ==
    /\ Running
    /\ last' = [op |-> "asInt", name |-> v, arg |-> val[v], res |-> asInt(val[v])]
    /\ UNCHANGED <<val, arr, map, heap, sso>>

AsLong64(v) ==
    /\ Running
    /\ last' = [op |-> "asLong64", name |-> v, arg |-> val[v], res |-> asLong64(val[v])]
    /\ UNCHANGED <<val, arr, map, heap, sso>>

\* a == b on the PropVal variables a and b
Compare(a, b) ==
    /\ Running
    /\ \E r \in PropVal_eq(heap, val[a], val[b]) :
          last' = [op |-> IF r = "crash" THEN "crash" ELSE "==", a |-> a, b |-> b, r |-> r]
    /\ UNCHANGED <<val, arr, map, heap, sso>>

NextNum ==
    \/ \E v \in ValNames, d \in Doubles : FromDouble(v, d)
    \/ \E v \in ValNames, i \in Integers64 : FromInteger(v, i)
    \/ \E v \in ValNames, i \in Integers32 : FromInt32(v, i)
    \/ \E v \in ValNames, b \in BOOLEAN : FromBool(v, b)
    \/ \E v \in ValNames, type \in Types : FromType(v, type)
    \/ AsBool("x")
    \/ AsInt("x")
    \/ AsLong64("x")
    \/ \E a \in ValNames : Compare(a, Other(a))

SpecNum == Init /\ [][NextNum]_vars

(***************************************************************************)
(* C7, C8: normalisation of doubles, numeric accessors                     *)
(***************************************************************************)
\* d is an integer that a 64-bit signed integer holds exactly
RoundTrips(d) == d.k = "fin" /\ d.half = 0 /\ InInt64Range(d)

\* the 64-bit signed integer equal to such a d
IntegralValue(d) ==
    LET low == SubSeq(d.ip, 1, W64) IN IF d.neg THEN Neg(low) ELSE low

InInt32Range(n) == SLeq(INT32_MIN64, n) /\ SLeq(n, INT32_MAX64)

\* C7: a Value constructed from a double x is the integer x when x round-trips
\* exactly through a 64-bit signed integer and the real x otherwise; no
\* real-tagged Value holds an exact integer; a real-tagged and an
\* integer-tagged Value never compare equal, in either operand order.
C7_Normalised ==
    /\ last.op = "PropVal(double)" =>
          IF RoundTrips(last.arg)
          THEN val[last.name] = PropVal_Integer(IntegralValue(last.arg))
          ELSE val[last.name].m_type = "REAL" /\ val[last.name].m_content.v = last.arg
    /\ \A v \in ValNames : val[v].m_type = "REAL" => ~RoundTrips(val[v].m_content.v)
    /\ (last.op = "==" /\ {val[last.a].m_type, val[last.b].m_type} = {"REAL", "INTEGER"})
          => last.r = "false"

\* C8: the numeric accessors on an integer n: as-64-bit-int returns n,
\* as-32-bit-int returns n when n is in the signed 32-bit range and fails
\* otherwise, as-boolean returns false for 0, true for 1 and fails otherwise;
\* on a boolean the integer accessors return 0/1; on every other tag all
\* three fail; a failing accessor leaves the Value unchanged.
C8_Accessors ==
    last.op \in {"asBool", "asInt", "asLong64"} =>
        LET x == last.arg
            n == x.m_content.v
            res == last.res
        IN /\ x.m_type = "INTEGER" =>
                 /\ last.op = "asLong64" => res.ok /\ res.r = n
                 /\ last.op = "asInt" =>
                       IF InInt32Range(n) THEN res.ok /\ SignExt(res.r) = n ELSE ~res.ok
                 /\ last.op = "asBool" =>
                       IF n = I64(0) THEN res.ok /\ res.r = FALSE
                       ELSE IF n = I64(1) THEN res.ok /\ res.r = TRUE
                       ELSE ~res.ok
           /\ x.m_type = "BOOL" =>
                 /\ last.op = "asLong64" => res.ok /\ res.r = (IF n THEN I64(1) ELSE I64(0))
                 /\ last.op = "asInt" => res.ok /\ res.r = (IF n THEN I32(1) ELSE I32(0))
                 /\ last.op = "asBool" => res.ok /\ res.r = n
           /\ x.m_type \notin {"INTEGER", "BOOL"} => ~res.ok
           /\ ~res.ok => val[last.name] = x

\* as-32-bit-int has failed on 2^40, and has succeeded on INT32_MIN
C8_Witness ==
    /\ last.op = "asInt" /\ last.name = "x"
    /\ last.arg = PropVal_Integer(Pow2(40, W64)) /\ ~last.res.ok
    /\ asInt(val["y"]).ok /\ val["y"] = PropVal_Integer(INT32_MIN64)

(***************************************************************************)
(* Array and Map variables                                                 *)
(***************************************************************************)
\* the longest sequence, and the most entries, a container is grown to
MaxLen == 2

I(k) == PropVal_Integer(I64(k))

\* ~Array(), ~Map(): the unique_ptr deletes the store it owns
Container_destroy(h, c) ==
    LET a == IF "m_elements" \in DOMAIN c THEN c.m_elements ELSE c.m_entries IN
    IF a = NULL THEN h ELSE Release(h, {a} \cup ReachAll(h, Held(h[a])))

\* Array a{...}: the variable is declared anew from an initializer list
SeqInit(a, items) ==
    /\ Running
    /\ \E ts \in {BuildItems(NoItems(heap), items)} :
          \E r \in {Array_init(ts.h, ts.s)} :
             Step(Cfg(val, [arr EXCEPT ![a] = r.o], map,
                      Container_destroy(DestroyAll(r.h, ts.s), arr[a])))
    /\ last' = [op |-> "Array(init)", a |-> a]

\* a.push_back(PropVal(...)) with a temporary
SeqPushBack(a, lit) ==
    /\ Running
    /\ arr[a].m_elements # NULL
    /\ size(heap, arr[a]) < MaxLen
    /\ \E t \in {Build(heap, lit)} :
          \E r \in {push_back_move(t.h, arr[a], t.v)} :
             Step(Cfg(val, arr, map, PropVal_destroy(r.h, r.value)))
    /\ last' = [op |-> "push_back", a |-> a]

\* a == b on the Array variables a and b
SeqCompare(a, b) ==
    /\ Running
    /\ arr[a].m_elements # NULL /\ arr[b].m_elements # NULL
    /\ \E r \in Array_eq(heap, arr[a], arr[b]) :
          last' = [op |-> IF r = "crash" THEN "crash" ELSE "Array==", a |-> a, b |-> b, r |-> r]
    /\ UNCHANGED <<val, arr, map, heap, sso>>

SeqItems == {I(1), I(2), ArrayLit(<<I(1)>>), ArrayLit(<<>>)}
SeqLists == {<<>>, <<I(1)>>, <<I(1), I(2)>>, <<I(2), I(1)>>, <<ArrayLit(<<I(1)>>)>>}

NextSeq ==
    \/ \E a \in ArrNames, items \in SeqLists : SeqInit(a, items)
    \/ \E a \in ArrNames, lit \in SeqItems : SeqPushBack(a, lit)
    \/ \E a \in ArrNames, b \in ArrNames : SeqCompare(a, b)

SpecSeq == Init /\ [][NextSeq]_vars

\* the same length and, position by position, the same elements
SameElements(h, a, b) ==
    LET es == h[a.m_elements].e
        os == h[b.m_elements].e
    IN Len(es) = Len(os) /\ \A i \in 1..Len(es) : Abs(h, es[i]) = Abs(h, os[i])

\* C5: two sequences compare equal if and only if they have the same length
\* and pairwise equal elements in order; a sequence is never equal to a longer
\* one of which it is a proper prefix.
C5_SeqEquality ==
    last.op = "Array==" =>
        (last.r = "true" <=> SameElements(heap, arr[last.a], arr[last.b]))

\* Map a{...}: the variable is declared anew from an initializer list
MapInit(a, items) ==
    /\ Running
    /\ \E ts \in {BuildPairs(NoItems(heap), items)} :
          \E r \in {Map_init(ts.h, ts.s)} :
             Step(Cfg(val, arr, [map EXCEPT ![a] = r.o],
                      Container_destroy(DestroyAll(r.h, Held(Entries(ts.s))), map[a])))
    /\ last' = [op |-> "Map(init)", a |-> a]

\* a[key] = PropVal(...) with a temporary
MapPut(a, key, lit) ==
    /\ Running
    /\ map[a].m_entries # NULL
    /\ hasMember(heap, map[a], key) \/ size(heap, map[a]) < MaxLen
    /\ \E t \in {Build(heap, lit)} :
          \E ix \in {Map_index(t.h, map[a], key)} :
             \E as \in {Assign_move(ix.h, ix.h[map[a].m_entries].e[ix.at].second, t.v)} :
                Step(Cfg(val, arr, map,
                         PropVal_destroy(SetSecond(as.h, map[a], ix.at, as.this), as.from)))
    /\ last' = [op |-> "put", a |-> a, key |-> key]

\* a == b on the Map variables a and b
MapCompare(a, b) ==
    /\ Running
    /\ map[a].m_entries # NULL /\ map[b].m_entries # NULL
    /\ \E r \in Map_eq(heap, map[a], map[b]) :
          last' = [op |-> IF r = "crash" THEN "crash" ELSE "Map==", a |-> a, b |-> b, r |-> r]
    /\ UNCHANGED <<val, arr, map, heap, sso>>

Keys == {1, 2}
MapLists ==
    {<<>>, <<Entry(1, I(1))>>, <<Entry(1, I(1)), Entry(2, I(2))>>,
     <<Entry(2, I(2)), Entry(1, I(1))>>, <<Entry(2, I(2))>>,
     <<Entry(1, I(1)), Entry(1, I(2))>>}

NextMapEq ==
    \/ \E a \in MapNames, items \in MapLists : MapInit(a, items)
    \/ \E a \in MapNames, key \in Keys, lit \in {I(1), I(2)} : MapPut(a, key, lit)
    \/ \E a \in MapNames, b \in MapNames : MapCompare(a, b)

SpecMapEq == Init /\ [][NextMapEq]_vars

\* the same keys and, under every key, the same value
SameEntries(h, a, b) ==
    LET es == h[a.m_entries].e
        os == h[b.m_entries].e
    IN /\ {es[i].first : i \in 1..Len(es)} = {os[i].first : i \in 1..Len(os)}
       /\ \A i \in 1..Len(es), j \in 1..Len(os) :
             es[i].first = os[j].first => Abs(h, es[i].second) = Abs(h, os[j].second)

\* C6: two maps compare equal if and only if they have identical key sets and
\* equal values under every key, whatever the insertion order; a map is never
\* equal to a map that has additional keys.
C6_MapEquality ==
    last.op = "Map==" =>
        (last.r = "true" <=> SameEntries(heap, map[last.a], map[last.b]))

(***************************************************************************)
(* C4: equality of Values                                                  *)
(***************************************************************************)
\* PropVal v = <literal>
FromLit(v, lit) ==
    /\ Running
    /\ \E r \in {Build(heap, lit)} : Step(Declared(v, r.h, r.v))
    /\ last' = [op |-> "PropVal(lit)", name |-> v]

EqDoubles == {DSmall(FALSE, 1, 0), DSmall(FALSE, 1, 1), NaN}
EqLits ==
    {PropVal_default, PropVal_Bool(TRUE), PropVal_Bool(FALSE), I(0), I(1),
     PropVal_Name(1), PropVal_String("ab"),
     ArrayLit(<<>>), ArrayLit(<<I(1)>>), ArrayLit(<<I(1), I(2)>>),
     MapLit("INDEXED", <<>>), MapLit("INDEXED", <<Entry(1, I(1))>>),
     MapLit("STRUC", <<Entry(1, I(1))>>),
     MapLit("STRUC", <<Entry(2, I(2)), Entry(1, I(1))>>)}

NextEq ==
    \/ \E v \in ValNames, d \in EqDoubles : FromDouble(v, d)
    \/ \E v \in ValNames, lit \in EqLits : FromLit(v, lit)
    \/ \E a \in ValNames, b \in ValNames : Compare(a, b)

SpecEq == Init /\ [][NextEq]_vars

\* C4: equality is reflexive and symmetric for every constructible Value:
\* a == a holds, and a == b holds exactly when b == a holds.
C4_EqReflSym ==
    last.op \in {"==", "crash"} =>
        /\ last.op = "=="
        /\ last.a = last.b => last.r = "true"
        /\ PropVal_eq(heap, val[last.b], val[last.a]) = {last.r}

(***************************************************************************)
(* C1, C3: construction, copy, move, assignment and swap of Values         *)
(***************************************************************************)
\* PropVal a(b)
CopyCtor(a, b) ==
    /\ Running
    /\ a # b
    /\ \E r \in {PropVal_copy(heap, val[b])} : Step(Declared(a, r.h, r.v))
    /\ last' = [op |-> "PropVal(const PropVal&)", a |-> a, b |-> b]

\* PropVal a(std::move(b))
MoveCtor(a, b) ==
    /\ Running
    /\ a # b
    /\ \E m \in {PropVal_move(val[b])} :
          Step(Cfg([val EXCEPT ![a] = m.this, ![b] = m.other], arr, map,
                   PropVal_destroy(heap, val[a])))
    /\ last' = [op |-> "move", a |-> a, b |-> b, was |-> Abs(heap, val[b])]

\* a = b
AssignCopy(a, b) ==
    /\ Running
    /\ \E r \in {Assign_copy(heap, val[a], val[b])} :
          Step(Cfg([val EXCEPT ![a] = r.this], arr, map, r.h))
    /\ last' = [op |-> "=", a |-> a, b |-> b]

\* a = std::move(b)
AssignMove(a, b) ==
    /\ Running
    /\ a # b
    /\ \E r \in {Assign_move(heap, val[a], val[b])} :
          Step(Cfg([val EXCEPT ![a] = r.this, ![b] = r.from], arr, map, r.h))
    /\ last' = [op |-> "move", a |-> a, b |-> b, was |-> Abs(heap, val[b])]

\* swap(a, b)
Swap(a, b) ==
    /\ Running
    /\ a # b
    /\ \E r \in {swap(val[a], val[b])} :
          Step(Cfg([val EXCEPT ![a] = r.a, ![b] = r.b], arr, map, heap))
    /\ last' = [op |-> "swap", a |-> a, b |-> b]

\* PropVal v(p) with an Array variable p
FromArray(v, p) ==
    /\ Running
    /\ arr[p].m_elements # NULL
    /\ \E r \in {PropVal_Array_copy(heap, arr[p])} : Step(Declared(v, r.h, r.v))
    /\ last' = [op |-> "PropVal(const Array&)", name |-> v]

\* PropVal v(m) with an Indexed variable m
FromIndexed(v, m) ==
    /\ Running
    /\ map[m].m_entries # NULL
    /\ \E r \in {PropVal_Map_copy(heap, "INDEXED", map[m])} : Step(Declared(v, r.h, r.v))
    /\ last' = [op |-> "PropVal(const Indexed&)", name |-> v]

ValLits ==
    {PropVal_Bool(TRUE), PropVal_Name(1), PropVal_String("ab"),
     ArrayLit(<<I(1), PropVal_String("ab")>>),
     MapLit("INDEXED", <<Entry(1, I(1))>>), MapLit("STRUC", <<Entry(2, ArrayLit(<<>>))>>)}

NextVal ==
    \/ \E v \in ValNames, lit \in ValLits : FromLit(v, lit)
    \/ \E v \in ValNames, d \in {DSmall(FALSE, 1, 1), DSmall(FALSE, 2, 0)} : FromDouble(v, d)
    \/ \E v \in ValNames, type \in Types : FromType(v, type)
    \/ \E v \in ValNames, p \in ArrNames : FromArray(v, p)
    \/ \E v \in ValNames, m \in MapNames : FromIndexed(v, m)
    \/ \E a \in ValNames, b \in ValNames : CopyCtor(a, b)
    \/ \E a \in ValNames, b \in ValNames : MoveCtor(a, b)
    \/ \E a \in ValNames, b \in ValNames : AssignCopy(a, b)
    \/ \E a \in ValNames, b \in ValNames : AssignMove(a, b)
    \/ \E a \in ValNames, b \in ValNames : Swap(a, b)

SpecVal == Init /\ [][NextVal]_vars

\* every PropVal there is: the variables and the PropVals held by the stores
AllValues ==
    {val[v] : v \in ValNames}
        \cup UNION {{Held(heap[a])[i] : i \in 1..Len(heap[a].e)} : a \in DOMAIN heap}

\* C1: after any sequence of constructions, copies, moves, assignments and
\* swaps, the discriminant of every Value names the payload that is live in it.
C1_TagNamesPayload == \A v \in AllValues : v.m_content.live = MemberOf(v.m_type)

\* a sequence and a text have changed places by swap
C1_Witness ==
    /\ last.op = "swap"
    /\ val["x"].m_type = "ARRAY" /\ size(heap, val["x"].m_content.v) = 2
    /\ val["y"].m_type = "STRING"

\* C3: move construction and move assignment give the destination the
\* source's former tag and payload and leave the source the absent Value,
\* owning nothing.
C3_MoveLeavesAbsent ==
    last.op = "move" =>
        /\ Abs(heap, val[last.a]) = last.was
        /\ val[last.b] = PropVal_default
        /\ Reach(heap, val[last.b]) = {}

(***************************************************************************)
(* C2: a copy and its original                                             *)
(***************************************************************************)
Mutated(a) == [op |-> "mutate", a |-> a, was |-> Abs(heap, val[Other(a)])]

\* the Array inside the PropVal variable a, or inside its first element
Target(a, inner) ==
    IF inner THEN heap[Store(val[a])].e[1].m_content.v ELSE val[a].m_content.v

HasTarget(a, inner) ==
    /\ val[a].m_type = "ARRAY"
    /\ inner => /\ size(heap, val[a].m_content.v) > 0
                /\ heap[Store(val[a])].e[1].m_type = "ARRAY"

\* a.asArray().push_back(PropVal(...)), a.asArray()[0].asArray().push_back(PropVal(...))
ValPushBack(a, inner, lit) ==
    /\ Running
    /\ HasTarget(a, inner)
    /\ size(heap, Target(a, inner)) < MaxLen
    /\ \E t \in {Build(heap, lit)} :
          \E r \in {push_back_move(t.h, Target(a, inner), t.v)} :
             Step(Cfg(val, arr, map, PropVal_destroy(r.h, r.value)))
    /\ last' = Mutated(a)

\* a.asArray().resize(n)
ValResize(a, inner, n) ==
    /\ Running
    /\ HasTarget(a, inner)
    /\ Step(Cfg(val, arr, map, resize(heap, Target(a, inner), n)))
    /\ last' = Mutated(a)

\* a.asArray().clear()
ValClear(a, inner) ==
    /\ Running
    /\ HasTarget(a, inner)
    /\ Step(Cfg(val, arr, map, clear(heap, Target(a, inner))))
    /\ last' = Mutated(a)

\* a.asArray()[i] = PropVal(...)
ValSetElement(a, i, lit) ==
    /\ Running
    /\ val[a].m_type = "ARRAY"
    /\ i < size(heap, val[a].m_content.v)
    /\ \E t \in {Build(heap, lit)}, at \in {Store(val[a])} :
          \E as \in {Assign_move(t.h, t.h[at].e[i + 1], t.v)} :
             Step(Cfg(val, arr, map,
                      PropVal_destroy([as.h EXCEPT ![at] =
                                          Elements([@.e EXCEPT ![i + 1] = as.this])],
                                      as.from)))
    /\ last' = Mutated(a)

\* a.asIndexed()[key] = PropVal(...), a.asStruc()[key] = PropVal(...)
ValPut(a, key, lit) ==
    /\ Running
    /\ val[a].m_type \in {"INDEXED", "STRUC"}
    /\ hasMember(heap, val[a].m_content.v, key) \/ size(heap, val[a].m_content.v) < MaxLen
    /\ \E t \in {Build(heap, lit)}, this \in {val[a].m_content.v} :
          \E ix \in {Map_index(t.h, this, key)} :
             \E as \in {Assign_move(ix.h, ix.h[this.m_entries].e[ix.at].second, t.v)} :
                Step(Cfg(val, arr, map,
                         PropVal_destroy(SetSecond(as.h, this, ix.at, as.this), as.from)))
    /\ last' = Mutated(a)

\* PropVal(d) for a double d that has one outcome
RealLit(d) == CHOOSE v \in PropVal_double(d) : TRUE

CopyLits ==
    {ArrayLit(<<I(1)>>), ArrayLit(<<ArrayLit(<<I(1)>>)>>), ArrayLit(<<RealLit(NaN)>>),
     MapLit("INDEXED", <<Entry(1, ArrayLit(<<I(1)>>))>>), MapLit("STRUC", <<Entry(1, I(1))>>)}

NextCopy ==
    \/ \E lit \in CopyLits : FromLit("x", lit)
    \/ \E a \in ValNames, b \in ValNames : CopyCtor(a, b)
    \/ \E a \in ValNames, inner \in BOOLEAN : ValPushBack(a, inner, I(2))
    \/ \E a \in ValNames, inner \in BOOLEAN, n \in {1, MaxLen} : ValResize(a, inner, n)
    \/ \E a \in ValNames, inner \in BOOLEAN : ValClear(a, inner)
    \/ \E a \in ValNames, i \in 0..(MaxLen - 1) : ValSetElement(a, i, I(2))
    \/ \E a \in ValNames, key \in Keys : ValPut(a, key, I(2))

SpecCopy == Init /\ [][NextCopy]_vars

\* copy and original never share a container
Unshared == Reach(heap, val["x"]) \cap Reach(heap, val["y"]) = {}

\* a mutation of one of the two leaves the other as it was
FrameHeld == last.op = "mutate" => Abs(heap, val[Other(last.a)]) = last.was

\* C2: a copy c of a Value v holding a sequence or a map satisfies c == v
\* right after the copy; mutating c leaves v unchanged and mutating v leaves
\* c unchanged; the two never share a container.
C2_CopyIndependent ==
    /\ (last.op = "PropVal(const PropVal&)" /\ IsContainer(val[last.b]))
          => PropVal_eq(heap, val[last.a], val[last.b]) = {"true"}
    /\ FrameHeld
    /\ Unshared

(***************************************************************************)
(* C9: lookups in a Map                                                    *)
(***************************************************************************)
\* the entries of a Map, the heap left out
AbsEntries(h, this) ==
    LET es == h[this.m_entries].e
    IN [i \in 1..Len(es) |-> Entry(es[i].first, Abs(h, es[i].second))]

Lookup(op, a, key, ok, ret, d) ==
    [op |-> op, a |-> a, key |-> key, ok |-> ok, ret |-> ret, d |-> d,
     present |-> hasMember(heap, map[a], key), before |-> AbsEntries(heap, map[a])]

MayInsert(a, key) ==
    /\ map[a].m_entries # NULL
    /\ hasMember(heap, map[a], key) \/ size(heap, map[a]) < MaxLen

\* a[key]
MapIndex(a, key) ==
    /\ Running
    /\ MayInsert(a, key)
    /\ \E ix \in {Map_index(heap, map[a], key)} :
          /\ Step(Cfg(val, arr, map, ix.h))
          /\ last' = Lookup("[]", a, key, TRUE,
                            Abs(ix.h, ix.h[map[a].m_entries].e[ix.at].second), "none")

\* a.at(key), which throws std::out_of_range when there is no such key
MapAt(a, key) ==
    /\ Running
    /\ map[a].m_entries # NULL
    /\ \E r \in {Map_at(heap, map[a], key)} :
          last' = Lookup("at", a, key, r.ok,
                         IF r.ok THEN Abs(heap, heap[map[a].m_entries].e[r.at].second)
                         ELSE "none", "none")
    /\ UNCHANGED <<val, arr, map, heap, sso>>

\* a(key, d) with the PropVal variable d
MapCall(a, key, d) ==
    /\ Running
    /\ MayInsert(a, key)
    /\ \E r \in {Map_call(heap, map[a], key, val[d])} :
          /\ Step(Cfg(val, arr, map, r.h))
          /\ last' = Lookup("()", a, key, TRUE,
                            Abs(r.h, r.h[map[a].m_entries].e[r.at].second), Abs(heap, val[d]))

\* a(key, PropVal(...)) with a temporary
MapCallMove(a, key, lit) ==
    /\ Running
    /\ MayInsert(a, key)
    /\ \E t \in {Build(heap, lit)} :
          \E r \in {Map_call_move(t.h, map[a], key, t.v)} :
             /\ Step(Cfg(val, arr, map, PropVal_destroy(r.h, r.dflt)))
             /\ last' = Lookup("()", a, key, TRUE,
                               Abs(r.h, r.h[map[a].m_entries].e[r.at].second), Abs(t.h, t.v))

Defaults == {I(2), PropVal_String("ab"), ArrayLit(<<I(1)>>)}

NextMap ==
    \/ \E items \in {<<>>, <<Entry(2, I(1))>>} : MapInit("m", items)
    \/ \E lit \in Defaults : FromLit("x", lit)
    \/ \E key \in Keys : MapIndex("m", key)
    \/ \E key \in Keys : MapAt("m", key)
    \/ \E key \in Keys : MapCall("m", key, "x")
    \/ \E key \in Keys, lit \in Defaults : MapCallMove("m", key, lit)

SpecMap == Init /\ [][NextMap]_vars

\* after is before with one more entry, [key, value]: one longer, no key
\* twice, every entry of before still there
Inserted(before, after, key, value) ==
    /\ Len(after) = Len(before) + 1
    /\ \A i, j \in 1..Len(after) : after[i].first = after[j].first => i = j
    /\ \A i \in 1..Len(before) : \E j \in 1..Len(after) : after[j] = before[i]
    /\ \E j \in 1..Len(after) : after[j] = Entry(key, value)

\* C9: when the key is present, operator[], at and the get-or-insert call
\* return the stored value and leave the map unchanged; when it is missing,
\* operator[] inserts it with an absent Value, the get-or-insert call inserts
\* it with a value equal to d, and at fails and leaves the map unchanged.
\* An insertion grows the map by one entry, keeps the keys unique and leaves
\* the other entries unchanged.
C9_Lookups ==
    last.op \in {"[]", "at", "()"} =>
        LET after == AbsEntries(heap, map[last.a]) IN
        IF last.present
        THEN /\ last.ok
             /\ after = last.before
             /\ \E i \in 1..Len(after) : after[i] = Entry(last.key, last.ret)
        ELSE CASE last.op = "[]" ->
                    /\ Inserted(last.before, after, last.key, Abs(heap, PropVal_default))
                    /\ last.ret = Abs(heap, PropVal_default)
               [] last.op = "()" ->
                    /\ Inserted(last.before, after, last.key, last.d)
                    /\ last.ret = last.d
               [] last.op = "at" -> ~last.ok /\ after = last.before

(***************************************************************************)
(* C10: the backing store of the containers                                *)
(***************************************************************************)
\* -> of a null unique_ptr
Crash ==
    /\ last' = [op |-> "crash"]
    /\ UNCHANGED <<val, arr, map, heap, sso>>

\* the operation has returned
Done == last' = [op |-> "done"]

\* Array a;
SeqDefault(a) ==
    /\ Running
    /\ \E r \in {Array_default(heap)} :
          Step(Cfg(val, [arr EXCEPT ![a] = r.o], map, Container_destroy(r.h, arr[a])))
    /\ Done

\* Array a(b)
SeqCopy(a, b) ==
    /\ Running
    /\ a # b
    /\ IF arr[b].m_elements = NULL THEN Crash
       ELSE /\ \E r \in {Array_copy(heap, arr[b])} :
                  Step(Cfg(val, [arr EXCEPT ![a] = r.o], map, Container_destroy(r.h, arr[a])))
            /\ Done

\* Array a(std::move(b))
SeqMove(a, b) ==
    /\ Running
    /\ a # b
    /\ \E r \in {Array_move(arr[b])} :
          Step(Cfg(val, [arr EXCEPT ![a] = r.this, ![b] = r.other], map,
                   Container_destroy(heap, arr[a])))
    /\ Done

\* a = b
SeqAssign(a, b) ==
    /\ Running
    /\ IF NULL \in {arr[a].m_elements, arr[b].m_elements} THEN Crash
       ELSE /\ Step(Cfg(val, arr, map, Array_assign(heap, arr[a], arr[b])))
            /\ Done

\* a = std::move(b)
SeqAssignMove(a, b) ==
    /\ Running
    /\ a # b
    /\ IF NULL \in {arr[a].m_elements, arr[b].m_elements} THEN Crash
       ELSE /\ Step(Cfg(val, arr, map, Array_assign_move(heap, arr[a], arr[b])))
            /\ Done

\* swap(a, b)
SeqSwap(a, b) ==
    /\ Running
    /\ a # b
    /\ \E r \in {Array_swap(arr[a], arr[b])} :
          Step(Cfg(val, [arr EXCEPT ![a] = r.a, ![b] = r.b], map, heap))
    /\ Done

\* PropVal v(std::move(a))
SeqIntoValue(v, a) ==
    /\ Running
    /\ \E r \in {PropVal_Array_move(arr[a])} :
          Step(Cfg([val EXCEPT ![v] = r.this], [arr EXCEPT ![a] = r.value], map,
                   PropVal_destroy(heap, val[v])))
    /\ Done

\* a.size(), a.empty()
SeqSize(a) ==
    /\ Running
    /\ IF arr[a].m_elements = NULL THEN Crash
       ELSE /\ last' = [op |-> "size", r |-> size(heap, arr[a])]
            /\ UNCHANGED <<val, arr, map, heap, sso>>

\* Map a(b)
MapCopy(a, b) ==
    /\ Running
    /\ a # b
    /\ IF map[b].m_entries = NULL THEN Crash
       ELSE /\ \E r \in {Map_copy(heap, map[b])} :
                  Step(Cfg(val, arr, [map EXCEPT ![a] = r.o], Container_destroy(r.h, map[a])))
            /\ Done

\* Map a(std::move(b))
MapMove(a, b) ==
    /\ Running
    /\ a # b
    /\ \E r \in {Map_move(map[b])} :
          Step(Cfg(val, arr, [map EXCEPT ![a] = r.this, ![b] = r.other],
                   Container_destroy(heap, map[a])))
    /\ Done

\* a = b
MapAssign(a, b) ==
    /\ Running
    /\ IF NULL \in {map[a].m_entries, map[b].m_entries} THEN Crash
       ELSE /\ Step(Cfg(val, arr, map, Map_assign(heap, map[a], map[b])))
            /\ Done

\* a = std::move(b)
MapAssignMove(a, b) ==
    /\ Running
    /\ a # b
    /\ IF NULL \in {map[a].m_entries, map[b].m_entries} THEN Crash
       ELSE /\ Step(Cfg(val, arr, map, Map_assign_move(heap, map[a], map[b])))
            /\ Done

\* PropVal v(std::move(a)) with an Indexed a
MapIntoValue(v, a) ==
    /\ Running
    /\ \E r \in {PropVal_Map_move("INDEXED", map[a])} :
          Step(Cfg([val EXCEPT ![v] = r.this], arr, [map EXCEPT ![a] = r.value],
                   PropVal_destroy(heap, val[v])))
    /\ Done

\* a.hasMember(key)
MapHasMember(a, key) ==
    /\ Running
    /\ IF map[a].m_entries = NULL THEN Crash
       ELSE /\ last' = [op |-> "hasMember", r |-> hasMember(heap, map[a], key)]
            /\ UNCHANGED <<val, arr, map, heap, sso>>

NextCont ==
    \/ \E a \in ArrNames : SeqDefault(a)
    \/ \E a \in ArrNames : SeqInit(a, <<I(1)>>)
    \/ \E a \in ArrNames, b \in ArrNames : SeqCopy(a, b)
    \/ \E a \in ArrNames, b \in ArrNames : SeqMove(a, b)
    \/ \E a \in ArrNames, b \in ArrNames : SeqAssign(a, b)
    \/ \E a \in ArrNames, b \in ArrNames : SeqAssignMove(a, b)
    \/ \E a \in ArrNames, b \in ArrNames : SeqSwap(a, b)
    \/ \E a \in ArrNames : SeqIntoValue("x", a)
    \/ \E a \in ArrNames : SeqSize(a)
    \/ \E a \in MapNames : MapInit(a, <<Entry(1, I(1))>>)
    \/ \E a \in MapNames, b \in MapNames : MapCopy(a, b)
    \/ \E a \in MapNames, b \in MapNames : MapMove(a, b)
    \/ \E a \in MapNames, b \in MapNames : MapAssign(a, b)
    \/ \E a \in MapNames, b \in MapNames : MapAssignMove(a, b)
    \/ \E a \in MapNames : MapIntoValue("y", a)
    \/ \E a \in MapNames : MapHasMember(a, 1)

SpecCont == Init /\ [][NextCont]_vars

\* C10: every sequence and map container a caller can reach holds a non-null
\* backing store after any sequence of constructions, copies, moves,
\* assignments and swaps, so that every operation on it is well defined.
C10_BackingStore ==
    /\ \A a \in ArrNames : arr[a].m_elements # NULL
    /\ \A a \in MapNames : map[a].m_entries # NULL
    /\ Running

====
